---- MODULE Spec2Model ----
(***************************************************************************)
(* A model of google/cloud/resource_manager/folder.py: the Folder handle,  *)
(* a local mirror of a remote folder, and the REST calls it issues through *)
(* client._connection_v2.api_request.                                      *)
(*                                                                         *)
(* Every method is one atomic action (the code is synchronous and          *)
(* single-threaded).  The connection is an external collaborator: under    *)
(* Spec each request nondeterministically succeeds with any response dict  *)
(* or raises NotFound or another error; under SpecStore the requests are   *)
(* answered by a backend that stores folders.                              *)
(***************************************************************************)
EXTENDS Integers, Sequences, FiniteSets, TLC

VARIABLES
    bound_client,   \* self._client
    name,           \* self.name          (the folder id)
    display_name,   \* self.display_name
    parent,         \* self.parent
    status,         \* self.status        (lifecycleState)
    last,           \* the call that has just returned (Idle between calls)
    prev_create,    \* whether the call before this one was a successful create()
    received,       \* lifecycleState values of the responses merged so far
    server          \* the backend's stored folders (used under SpecStore)

vars == <<bound_client, name, display_name, parent, status, last, prev_create,
          received, server>>
fields == <<name, display_name, parent, status>>

----------------------------------------------------------------------------
(* Bounds of the model. *)
MaxFolders == 2
MaxParents == 1
MaxDisplayNames == 2

(* Python's None.  No string value of the model equals it. *)
None == "<None>"

Names == {"folders/" \o ToString(i) : i \in 1..MaxFolders}
Parents == {"organizations/" \o ToString(i) : i \in 1..MaxParents}
DisplayNames == {"display-" \o ToString(i) : i \in 1..MaxDisplayNames}
LifecycleStates == {"ACTIVE", "DELETE_REQUESTED"}
Clients == {"client-1", "client-2"}

Opt(S) == S \cup {None}

(* A dict is a function from its keys to its values; NoDict is the empty   *)
(* dict, also used for a keyword argument that is not passed.              *)
NoDict == [k \in {} |-> None]
Keys == {"name", "parent", "lifecycleState", "displayName"}

ValuesOf(k) ==
    CASE k = "name" -> Names
      [] k = "parent" -> Parents
      [] k = "lifecycleState" -> LifecycleStates
      [] k = "displayName" -> DisplayNames

(* The response dicts the connection may return: any subset of the keys.   *)
Responses ==
    UNION { {r \in [K -> Names \cup Parents \cup LifecycleStates \cup DisplayNames] :
                \A k \in K : r[k] \in ValuesOf(k)} : K \in SUBSET Keys }

(* api_request either returns ("ok") or raises. *)
Errors == {"NotFound", "Error"}
Outcomes == {"ok"} \cup Errors

----------------------------------------------------------------------------
(* dict.get(key): the value, or None when the key is absent. *)
Get(resource, k) == IF k \in DOMAIN resource THEN resource[k] ELSE None

(* "%s" % value *)
PyStr(v) == IF v = None THEN "None" ELSE v

(* Mutant of Path: the id is taken to be the bare number after "folders/". *)
PathWithPrefix == "/folders/" \o PyStr(name)

(* Folder.path *)
Path == "/" \o PyStr(name)

(* Folder._require_client *)
RequireClient(client) == IF client = None THEN bound_client ELSE client

Request(client, method, path, data, query_params) ==
    [client |-> client, method |-> method, path |-> path,
     data |-> data, query_params |-> query_params]

(* Mutant of SetPropertiesFromApiRepr: an absent lifecycleState defaults   *)
(* to ACTIVE, resource.get("lifecycleState", "ACTIVE").                    *)
SetPropertiesDefaultActive(resource) ==
    /\ name' = Get(resource, "name")
    /\ parent' = IF "parent" \in DOMAIN resource THEN resource["parent"] ELSE parent
    /\ status' = IF "lifecycleState" \in DOMAIN resource
                    THEN resource["lifecycleState"] ELSE "ACTIVE"

(* Folder.set_properties_from_api_repr *)
SetPropertiesFromApiRepr(resource) ==
    /\ name' = Get(resource, "name")
    /\ parent' = IF "parent" \in DOMAIN resource THEN resource["parent"] ELSE parent
    /\ status' = IF "lifecycleState" \in DOMAIN resource
                    THEN resource["lifecycleState"] ELSE status

(* The lifecycleState values a sequence of responses carries. *)
StatesOf(resps) ==
    {resps[i]["lifecycleState"] : i \in {j \in 1..Len(resps) : "lifecycleState" \in DOMAIN resps[j]}}

(* The exception a call raises: that of its failing request, if any (a    *)
(* call stops at the first request that raises).                           *)
Raised(outcomes) ==
    IF outcomes # <<>> /\ outcomes[Len(outcomes)] # "ok"
        THEN outcomes[Len(outcomes)] ELSE "none"

(* No call is in progress: the caller has taken the last call's result. *)
Idle ==
    [op |-> "idle", client |-> None, reload_data |-> FALSE, arg_name |-> None,
     requests |-> <<>>, outcomes |-> <<>>, raised |-> "none", merged |-> FALSE,
     resp |-> NoDict, returned |-> "None", after_create |-> FALSE]

(* Bookkeeping of a call: what was asked, the requests it issued with      *)
(* their outcomes, the responses it read (those of DELETE, of undelete's   *)
(* POST and of exists' GET are discarded unread), the response it merged   *)
(* (if any), what it raised and what it returned.                          *)
Called(op, client, reload_data, arg_name, requests, outcomes, resps, merged, resp, raised, returned) ==
    /\ UNCHANGED prev_create
    /\ last' = [op |-> op, client |-> client, reload_data |-> reload_data,
                arg_name |-> arg_name, requests |-> requests, outcomes |-> outcomes,
                raised |-> raised, merged |-> merged, resp |-> resp,
                returned |-> returned,
                after_create |-> prev_create]
    /\ received' = received \cup StatesOf(resps)

----------------------------------------------------------------------------
(* Folder.__init__ *)
Construct ==
    /\ bound_client \in Clients
    /\ name \in Opt(Names)
    /\ display_name \in Opt(DisplayNames)
    /\ parent \in Opt(Parents)
    /\ status = None
    /\ received = {}

(* Folder.from_api_repr: cls(name=resource["name"], client=client), then   *)
(* set_properties_from_api_repr(resource).                                 *)
FromApiRepr ==
    \E resource \in {r \in Responses : "name" \in DOMAIN r} :
        /\ bound_client \in Clients
        /\ name = Get(resource, "name")
        /\ display_name = None
        /\ parent = Get(resource, "parent")
        /\ status = Get(resource, "lifecycleState")
        /\ received = StatesOf(<<resource>>)

Init ==
    /\ Construct \/ FromApiRepr
    /\ last = Idle
    /\ prev_create = FALSE
    /\ server = NoDict

(* The caller takes the result of the call and goes on. *)
Return ==
    /\ last # Idle
    /\ last' = Idle
    /\ prev_create' = (last.op = "create" /\ last.raised = "none")
    /\ UNCHANGED <<bound_client, name, display_name, parent, status, received, server>>

----------------------------------------------------------------------------
(* The caller assigns the public attributes display_name and parent. *)
SetDisplayName ==
    /\ last = Idle
    /\ \E v \in DisplayNames :
        /\ display_name' = v
        /\ UNCHANGED <<bound_client, name, parent, status, server>>
        /\ Called("set_display_name", None, FALSE, None, <<>>, <<>>, <<>>, FALSE, NoDict,
                  "none", "None")

SetParent ==
    /\ last = Idle
    /\ \E v \in Parents :
        /\ parent' = v
        /\ UNCHANGED <<bound_client, name, display_name, status, server>>
        /\ Called("set_parent", None, FALSE, None, <<>>, <<>>, <<>>, FALSE, NoDict,
                  "none", "None")

(* The POST request of Folder.create *)
CreateRequest(client) ==
    LET data == [name |-> name, displayName |-> display_name]
        query_params == [parent |-> parent]
    IN  Request(RequireClient(client), "POST", "/folders", data, query_params)

(* Mutant of DoCreate: the response is returned but not merged. *)
DoCreateNoMerge(client, out, resp) ==
    /\ UNCHANGED <<bound_client, name, display_name, parent, status>>
    /\ Called("create", client, FALSE, None, <<CreateRequest(client)>>, <<out>>,
              <<>>, FALSE, NoDict, Raised(<<out>>), IF out = "ok" THEN "resp" ELSE "-")

(* Folder.create *)
DoCreate(client, out, resp) ==
    LET req == CreateRequest(client)
    IN  /\ IF out = "ok"
               THEN SetPropertiesFromApiRepr(resp)
               ELSE UNCHANGED <<name, parent, status>>
        /\ UNCHANGED <<bound_client, display_name>>
        /\ Called("create", client, FALSE, None, <<req>>, <<out>>,
                  IF out = "ok" THEN <<resp>> ELSE <<>>, out = "ok",
                  IF out = "ok" THEN resp ELSE NoDict,
                  Raised(<<out>>), IF out = "ok" THEN "resp" ELSE "-")

(* The GET request of Folder.reload *)
ReloadRequest(client) == Request(RequireClient(client), "GET", Path, NoDict, NoDict)

(* Folder.reload *)
DoReload(client, out, resp) ==
    /\ IF out = "ok"
           THEN SetPropertiesFromApiRepr(resp)
           ELSE UNCHANGED <<name, parent, status>>
    /\ UNCHANGED <<bound_client, display_name>>
    /\ Called("reload", client, FALSE, None, <<ReloadRequest(client)>>, <<out>>,
              IF out = "ok" THEN <<resp>> ELSE <<>>, out = "ok",
              IF out = "ok" THEN resp ELSE NoDict,
              Raised(<<out>>), IF out = "ok" THEN "None" ELSE "-")

(* Mutant of ExistsCatches: a bare except clause. *)
ExistsCatchesAny(out) == out # "ok"

(* Folder.exists: the except clause catches NotFound only. *)
ExistsCatches(out) == out = "NotFound"

(* Folder.exists: the response of a successful GET is discarded. *)
DoExists(client, out) ==
    LET req == Request(RequireClient(client), "GET", Path, NoDict, NoDict)
    IN  /\ UNCHANGED <<bound_client, name, display_name, parent, status>>
        /\ Called("exists", client, FALSE, None, <<req>>, <<out>>, <<>>, FALSE, NoDict,
                  IF out = "ok" \/ ExistsCatches(out) THEN "none" ELSE out,
                  IF out = "ok" THEN "True"
                  ELSE IF ExistsCatches(out) THEN "False" ELSE "-")

(* Folder.update *)
DoUpdate(client, out, resp) ==
    LET data == [display_name |-> display_name, parent |-> parent]
        req == Request(RequireClient(client), "PUT", Path, data, NoDict)
    IN  /\ IF out = "ok"
               THEN SetPropertiesFromApiRepr(resp)
               ELSE UNCHANGED <<name, parent, status>>
        /\ UNCHANGED <<bound_client, display_name>>
        /\ Called("update", client, FALSE, None, <<req>>, <<out>>,
                  IF out = "ok" THEN <<resp>> ELSE <<>>, out = "ok",
                  IF out = "ok" THEN resp ELSE NoDict,
                  Raised(<<out>>), IF out = "ok" THEN "None" ELSE "-")

(* Mutant of DeleteReloads: the reload sits in a finally clause. *)
DeleteReloadsAlways(out, reload_data) == reload_data

(* Folder.delete: the DELETE raising skips the rest of the method. *)
DeleteReloads(out, reload_data) == out = "ok" /\ reload_data

(* Folder.delete; the follow-up is self.reload(), called without a client. *)
DoDelete(client, reload_data, out, rout, resp) ==
    LET req == Request(RequireClient(client), "DELETE", Path, NoDict, NoDict)
        follow == DeleteReloads(out, reload_data)
        merged == follow /\ rout = "ok"
        outcomes == IF follow THEN <<out, rout>> ELSE <<out>>
    IN  /\ IF merged
               THEN SetPropertiesFromApiRepr(resp)
               ELSE UNCHANGED <<name, parent, status>>
        /\ UNCHANGED <<bound_client, display_name>>
        /\ Called("delete", client, reload_data, None,
                  IF follow THEN <<req, ReloadRequest(None)>> ELSE <<req>>, outcomes,
                  IF merged THEN <<resp>> ELSE <<>>, merged,
                  IF merged THEN resp ELSE NoDict,
                  Raised(outcomes), IF Raised(outcomes) = "none" THEN "None" ELSE "-")

(* Mutant of UndeleteReloads: the reload sits in a finally clause. *)
UndeleteReloadsAlways(out, reload_data) == reload_data

(* Folder.undelete: the POST raising skips the rest of the method. *)
UndeleteReloads(out, reload_data) == out = "ok" /\ reload_data

(* Folder.undelete; the follow-up is self.reload(), called without a client. *)
DoUndelete(client, reload_data, out, rout, resp) ==
    LET req == Request(RequireClient(client), "POST", Path \o ":undelete", NoDict, NoDict)
        follow == UndeleteReloads(out, reload_data)
        merged == follow /\ rout = "ok"
        outcomes == IF follow THEN <<out, rout>> ELSE <<out>>
    IN  /\ IF merged
               THEN SetPropertiesFromApiRepr(resp)
               ELSE UNCHANGED <<name, parent, status>>
        /\ UNCHANGED <<bound_client, display_name>>
        /\ Called("undelete", client, reload_data, None,
                  IF follow THEN <<req, ReloadRequest(None)>> ELSE <<req>>, outcomes,
                  IF merged THEN <<resp>> ELSE <<>>, merged,
                  IF merged THEN resp ELSE NoDict,
                  Raised(outcomes), IF Raised(outcomes) = "none" THEN "None" ELSE "-")

(* Folder.get_folder; "/" + name raises TypeError when name is None. *)
DoGetFolder(client, arg_name, out, resp) ==
    IF arg_name = None
    THEN /\ UNCHANGED <<bound_client, name, display_name, parent, status>>
         /\ Called("get_folder", client, FALSE, arg_name, <<>>, <<>>, <<>>, FALSE, NoDict,
                   "TypeError", "-")
    ELSE LET req == Request(RequireClient(client), "GET", "/" \o arg_name, NoDict, NoDict)
         IN  /\ IF out = "ok"
                    THEN SetPropertiesFromApiRepr(resp)
                    ELSE UNCHANGED <<name, parent, status>>
             /\ UNCHANGED <<bound_client, display_name>>
             /\ Called("get_folder", client, FALSE, arg_name, <<req>>, <<out>>,
                       IF out = "ok" THEN <<resp>> ELSE <<>>, out = "ok",
                       IF out = "ok" THEN resp ELSE NoDict,
                       Raised(<<out>>), IF out = "ok" THEN "resp" ELSE "-")

(* Folder.get_iam_folder; "/" + name raises TypeError when name is None. *)
DoGetIamFolder(client, arg_name, out, resp) ==
    IF arg_name = None
    THEN /\ UNCHANGED <<bound_client, name, display_name, parent, status>>
         /\ Called("get_iam_folder", client, FALSE, arg_name, <<>>, <<>>, <<>>, FALSE,
                   NoDict, "TypeError", "-")
    ELSE LET req == Request(RequireClient(client), "POST",
                            "/" \o arg_name \o "/:getIamPolicy", NoDict, NoDict)
         IN  /\ IF out = "ok"
                    THEN SetPropertiesFromApiRepr(resp)
                    ELSE UNCHANGED <<name, parent, status>>
             /\ UNCHANGED <<bound_client, display_name>>
             /\ Called("get_iam_folder", client, FALSE, arg_name, <<req>>, <<out>>,
                       IF out = "ok" THEN <<resp>> ELSE <<>>, out = "ok",
                       IF out = "ok" THEN resp ELSE NoDict,
                       Raised(<<out>>), IF out = "ok" THEN "resp" ELSE "-")

----------------------------------------------------------------------------
(* The calls against a connection that answers each request with any       *)
(* response dict, or raises.                                               *)
ClientArgs == Opt(Clients)

Create ==
    /\ last = Idle
    /\ \/ \E client \in ClientArgs, resp \in Responses : DoCreate(client, "ok", resp)
       \/ \E client \in ClientArgs, err \in Errors : DoCreate(client, err, NoDict)
    /\ UNCHANGED server

Reload ==
    /\ last = Idle
    /\ \/ \E client \in ClientArgs, resp \in Responses : DoReload(client, "ok", resp)
       \/ \E client \in ClientArgs, err \in Errors : DoReload(client, err, NoDict)
    /\ UNCHANGED server

Exists ==
    /\ last = Idle
    /\ \E client \in ClientArgs, out \in Outcomes : DoExists(client, out)
    /\ UNCHANGED server

Update ==
    /\ last = Idle
    /\ \/ \E client \in ClientArgs, resp \in Responses : DoUpdate(client, "ok", resp)
       \/ \E client \in ClientArgs, err \in Errors : DoUpdate(client, err, NoDict)
    /\ UNCHANGED server

Delete ==
    /\ last = Idle
    /\ \/ \E client \in ClientArgs, out \in Outcomes :
              DoDelete(client, FALSE, out, "ok", NoDict)
       \/ \E client \in ClientArgs, err \in Errors :
              DoDelete(client, TRUE, err, "ok", NoDict)
       \/ \E client \in ClientArgs, resp \in Responses :
              DoDelete(client, TRUE, "ok", "ok", resp)
       \/ \E client \in ClientArgs, err \in Errors :
              DoDelete(client, TRUE, "ok", err, NoDict)
    /\ UNCHANGED server

Undelete ==
    /\ last = Idle
    /\ \/ \E client \in ClientArgs, out \in Outcomes :
              DoUndelete(client, FALSE, out, "ok", NoDict)
       \/ \E client \in ClientArgs, err \in Errors :
              DoUndelete(client, TRUE, err, "ok", NoDict)
       \/ \E client \in ClientArgs, resp \in Responses :
              DoUndelete(client, TRUE, "ok", "ok", resp)
       \/ \E client \in ClientArgs, err \in Errors :
              DoUndelete(client, TRUE, "ok", err, NoDict)
    /\ UNCHANGED server

GetFolder ==
    /\ last = Idle
    /\ \/ \E client \in ClientArgs, arg_name \in Names, resp \in Responses :
              DoGetFolder(client, arg_name, "ok", resp)
       \/ \E client \in ClientArgs, arg_name \in Opt(Names), err \in Errors :
              DoGetFolder(client, arg_name, err, NoDict)
    /\ UNCHANGED server

GetIamFolder ==
    /\ last = Idle
    /\ \/ \E client \in ClientArgs, arg_name \in Names, resp \in Responses :
              DoGetIamFolder(client, arg_name, "ok", resp)
       \/ \E client \in ClientArgs, arg_name \in Opt(Names), err \in Errors :
              DoGetIamFolder(client, arg_name, err, NoDict)
    /\ UNCHANGED server

Next ==
    \/ Return
    \/ SetDisplayName
    \/ SetParent
    \/ Create
    \/ Reload
    \/ Exists
    \/ Update
    \/ Delete
    \/ Undelete
    \/ GetFolder
    \/ GetIamFolder

Spec == Init /\ [][Next]_vars

----------------------------------------------------------------------------
(* A backend that stores folders: POST /folders stores a folder under a    *)
(* name the backend assigns and answers with its full representation, GET  *)
(* answers with the stored folder's full representation or NotFound, and   *)
(* DELETE marks the stored folder DELETE_REQUESTED.                        *)
Representation(n, folder) ==
    [name |-> n, parent |-> folder.parent, lifecycleState |-> folder.lifecycleState,
     displayName |-> folder.displayName]

Stored(path) == {n \in DOMAIN server : "/" \o n = path}

Put(n, folder) == [m \in DOMAIN server \cup {n} |-> IF m = n THEN folder ELSE server[m]]

StoreCreate ==
    /\ last = Idle
    /\ \E client \in ClientArgs :
          LET req == CreateRequest(client)
              folder == [parent |-> req.query_params["parent"],
                         displayName |-> req.data["displayName"],
                         lifecycleState |-> "ACTIVE"]
          IN  \/ \E n \in Names \ DOMAIN server :
                    /\ server' = Put(n, folder)
                    /\ DoCreate(client, "ok", Representation(n, folder))
              \/ /\ Names \subseteq DOMAIN server
                 /\ UNCHANGED server
                 /\ DoCreate(client, "Error", NoDict)

StoreReload ==
    /\ last = Idle
    /\ UNCHANGED server
    /\ \E client \in ClientArgs :
          LET found == Stored(ReloadRequest(client).path)
          IN  \/ \E n \in found : DoReload(client, "ok", Representation(n, server[n]))
              \/ found = {} /\ DoReload(client, "NotFound", NoDict)

StoreDelete ==
    /\ last = Idle
    /\ \E client \in ClientArgs, reload_data \in BOOLEAN :
          LET found == Stored(Path)
          IN  \/ \E n \in found :
                    LET folder == [server[n] EXCEPT !.lifecycleState = "DELETE_REQUESTED"]
                    IN  /\ server' = Put(n, folder)
                        /\ DoDelete(client, reload_data, "ok", "ok",
                                    Representation(n, folder))
              \/ /\ found = {}
                 /\ UNCHANGED server
                 /\ DoDelete(client, reload_data, "NotFound", "ok", NoDict)

NextStore ==
    \/ Return
    \/ SetParent
    \/ StoreCreate
    \/ StoreReload
    \/ StoreDelete

SpecStore == Init /\ [][NextStore]_vars

----------------------------------------------------------------------------
(* The calls that issue requests, and those among them that merge a        *)
(* response when they succeed.                                             *)
RequestOps ==
    {"create", "reload", "exists", "update", "delete", "undelete", "get_folder",
     "get_iam_folder"}
PathOps == {"reload", "exists", "update", "delete"}

(* C1: whenever a call merges a response, each of id (key name), parent    *)
(* and lifecycleState is overwritten with the response's value if its key  *)
(* is present, and keeps the value it had before the call if the key is    *)
(* absent.                                                                 *)
FieldMergeRule ==
    [][last'.merged =>
          /\ name' = IF "name" \in DOMAIN last'.resp THEN last'.resp["name"] ELSE name
          /\ parent' = IF "parent" \in DOMAIN last'.resp
                           THEN last'.resp["parent"] ELSE parent
          /\ status' = IF "lifecycleState" \in DOMAIN last'.resp
                           THEN last'.resp["lifecycleState"] ELSE status]_vars

(* C2: exists() issues one GET on the handle's path, returns True when the *)
(* request succeeds, False exactly when it raises NotFound, propagates any *)
(* other error, and leaves the local fields unchanged in every case.       *)
ExistsContract ==
    [][last'.op = "exists" =>
          /\ Len(last'.requests) = 1
          /\ last'.requests[1].method = "GET"
          /\ last'.requests[1].path = Path
          /\ last'.outcomes[1] = "ok" => last'.returned = "True" /\ last'.raised = "none"
          /\ last'.outcomes[1] = "NotFound" =>
                 last'.returned = "False" /\ last'.raised = "none"
          /\ last'.outcomes[1] \notin {"ok", "NotFound"} =>
                 last'.returned = "-" /\ last'.raised = last'.outcomes[1]
          /\ last'.returned = "False" => last'.outcomes[1] = "NotFound"
          /\ fields' = fields]_vars

ExistsReturnedFalse ==
    /\ last.op = "exists"
    /\ last.returned = "False"
    /\ last.outcomes = <<"NotFound">>
    /\ status # None

(* C3: delete(reload_data=False) issues one DELETE and no GET;             *)
(* delete(reload_data=True) issues the DELETE and then one GET, and the    *)
(* GET only if the DELETE succeeded.                                       *)
DeleteRequests ==
    last.op = "delete" =>
        LET methods == [i \in 1..Len(last.requests) |-> last.requests[i].method]
        IN  IF last.reload_data /\ last.outcomes[1] = "ok"
                THEN methods = <<"DELETE", "GET">>
                ELSE methods = <<"DELETE">>

DeleteThenReload ==
    /\ last.op = "delete"
    /\ last.reload_data
    /\ Len(last.requests) = 2
    /\ last.merged

(* C4: if the request of update() or undelete() raises, the error reaches  *)
(* the caller, every local field keeps the value it had before the call,   *)
(* and no GET follows the failed request.                                  *)
FailureLeavesLocalState ==
    [][(last'.op \in {"update", "undelete"} /\ last'.outcomes[1] # "ok") =>
          /\ last'.raised = last'.outcomes[1]
          /\ fields' = fields
          /\ Len(last'.requests) = 1]_vars

UndeleteFailed ==
    /\ last.op = "undelete"
    /\ last.reload_data
    /\ last.raised = "Error"
    /\ name \in Names
    /\ status # None

(* C5: a successful reload() whose response is the full representation     *)
(* overwrites all four local fields, display_name included.                *)
ReloadOverwritesAll ==
    (last.op = "reload" /\ last.merged /\ DOMAIN last.resp = Keys) =>
        /\ name = last.resp["name"]
        /\ display_name = last.resp["displayName"]
        /\ parent = last.resp["parent"]
        /\ status = last.resp["lifecycleState"]

(* C6: against the storing backend, a reload() that directly follows a     *)
(* successful create() leaves id, parent and lifecycleState as create()    *)
(* left them.                                                              *)
ReadAfterWrite ==
    [][(last'.op = "reload" /\ last'.after_create) =>
          /\ last'.raised = "none"
          /\ name' = name
          /\ parent' = parent
          /\ status' = status]_vars

ReloadedAfterCreate ==
    /\ last.op = "reload"
    /\ last.after_create
    /\ last.merged
    /\ status = "ACTIVE"
    /\ name \in DOMAIN server
    /\ Cardinality(DOMAIN server) > 1

(* C7: update() issues a single PUT on the handle's path whose body has    *)
(* exactly the keys displayName and parent, with the local values.         *)
UpdateBody ==
    [][last'.op = "update" =>
          /\ Len(last'.requests) = 1
          /\ last'.requests[1].method = "PUT"
          /\ last'.requests[1].path = Path
          /\ last'.requests[1].data =
                 [displayName |-> display_name, parent |-> parent]]_vars

(* C8: a call on a handle whose id is the string s sends reload, exists,   *)
(* update and delete (and the follow-up GET) to "/" + s and undelete to    *)
(* "/" + s + ":undelete", s being the id held when the call is made.       *)
PathDerivation ==
    [][name # None =>
          /\ last'.op \in PathOps => last'.requests[1].path = "/" \o name
          /\ last'.op = "undelete" => last'.requests[1].path = "/" \o name \o ":undelete"
          /\ (last'.op \in {"delete", "undelete"} /\ Len(last'.requests) = 2) =>
                 last'.requests[2].path = "/" \o name]_vars

RequestAfterIdChanged ==
    /\ last.op = "undelete"
    /\ last.after_create
    /\ Len(last.requests) = 2
    /\ last.requests[1].path = "/folders/2:undelete"
    /\ last.requests[2].path = "/folders/2"
    /\ name = "folders/1"

(* C9: the handle's lifecycleState is unset or the lifecycleState of a     *)
(* response it has merged; it changes only to the lifecycleState of the    *)
(* response just merged, and delete/undelete without reload leave it.      *)
LifecycleServerOwned ==
    /\ [](status = None \/ status \in received)
    /\ [][/\ status' # status =>
               /\ last'.merged
               /\ "lifecycleState" \in DOMAIN last'.resp
               /\ status' = last'.resp["lifecycleState"]
          /\ (last'.op \in {"delete", "undelete"} /\ ~last'.reload_data) =>
               status' = status]_vars

DeleteKeptLifecycle ==
    /\ last.op = "delete"
    /\ ~last.reload_data
    /\ last.raised = "none"
    /\ status = "ACTIVE"
    /\ received = LifecycleStates

(* C10: every request of a call goes through the client passed to the     *)
(* call, or through the bound client when none is passed.                  *)
ClientOverride ==
    last.op \in RequestOps =>
        \A i \in 1..Len(last.requests) :
            last.requests[i].client =
                IF last.client = None THEN bound_client ELSE last.client

====
